---- MODULE Spec2Model ----
(***************************************************************************)
(* Model of the qrs fountain-code sender: the CRC32 checksum, the block    *)
(* codec (blockToBinary / binaryToBlock), the Ideal Soliton sampler, the    *)
(* LtEncoder and its fountain() generator, and the drop-zone drag state of  *)
(* file-handler.js.                                                         *)
(*                                                                          *)
(* Number representation.  The model checker's integers are 32-bit signed,  *)
(* so a JavaScript integer-valued number n with -2^31 <= n < 2^32 is kept    *)
(* as a pair <<hi, lo>> with n = hi * 65536 + lo, 0 <= lo < 65536 and        *)
(* -32768 <= hi < 65536.  The pair is canonical, so equality of pairs is     *)
(* equality of numbers, and n >= 0 iff hi >= 0.  Small quantities (array     *)
(* lengths, slice indices of the encoder) stay plain integers.              *)
(***************************************************************************)
EXTENDS Integers, Sequences, FiniteSets, TLC

VARIABLES
    \* ---- LtEncoder and its fountain() generator (part_001)
    pc,          \* "new" | "ready" | "sampling" | "yielded" | "thrown"
    data,        \* this.data: the original payload
    sliceSize,   \* this.sliceSize
    compress,    \* this.compress
    compressed,  \* this.compressed
    slices,      \* this.indices: the slice table (the source calls it indices)
    k,           \* this.k
    checksum,    \* this.checksum, a number <<hi, lo>>
    bytes,       \* this.bytes
    degree,      \* fountain(): const degree
    sel,         \* getRandomIndices(): the Set, in insertion order
    block,       \* the block last yielded by fountain()
    \* ---- block codec (part_001)
    cphase,      \* "idle" | "encoded" | "received" | "decoded"
    littleEndian,\* byte order of the host's typed arrays
    cin,         \* the block given to blockToBinary
    wire,        \* the Uint8Array on the wire
    cout,        \* the outcome of binaryToBlock
    \* ---- setupDropZone (file-handler.js)
    dragCounter, \* let dragCounter
    dragging,    \* dropZone.classList contains 'dragging'
    listening,   \* the four window listeners are registered
    lastEvent,   \* the last event whose preventDefault() was called
    delivered    \* the files handed to onFileDropped, in order

encVars == <<pc, data, sliceSize, compress, compressed, slices, k, checksum,
             bytes, degree, sel, block>>
codecVars == <<cphase, littleEndian, cin, wire, cout>>
dropVars == <<dragCounter, dragging, listening, lastEvent, delivered>>
vars == <<encVars, codecVars, dropVars>>

(***************************************************************************)
(* Bounds of the model.                                                     *)
(***************************************************************************)
MaxLen == 3          \* longest payload
MaxSliceSize == 2    \* largest sliceSize
SCALE == 12          \* resolution of Math.random(): draws are r / SCALE
MaxK == 3            \* largest k of a block given to the codec
MaxWords == 6        \* most 32-bit words in a received buffer
MaxDrag == 4         \* most nested dragenter events
MaxFiles == 2        \* most files delivered to onFileDropped

PayloadBytes == {0, 97}

(***************************************************************************)
(* Helpers.                                                                 *)
(***************************************************************************)
Range(s) == {s[i] : i \in 1..Len(s)}

SeqsUpTo(S, n) == UNION {[1..m -> S] : m \in 0..n}

Min(S) == CHOOSE x \in S : \A y \in S : x <= y

Max2(a, b) == IF a >= b THEN a ELSE b

RECURSIVE Xor(_, _)
\* the bitwise ^ of two non-negative integers
Xor(a, b) ==
    IF a = 0 THEN b
    ELSE IF b = 0 THEN a
    ELSE (((a % 2) + (b % 2)) % 2) + 2 * Xor(a \div 2, b \div 2)

\* a small non-negative integer as a number <<hi, lo>>
Num(n) == <<n \div 65536, n % 65536>>

\* ToUint32 and ToInt32 of a number
ToUint32(n) == <<n[1] % 65536, n[2]>>
ToInt32(n) ==
    LET h == n[1] % 65536
    IN  <<IF h >= 32768 THEN h - 65536 ELSE h, n[2]>>

\* a ^ b on unsigned 32-bit patterns
XorW(a, b) == <<Xor(a[1], b[1]), Xor(a[2], b[2])>>
\* a >>> 1 and a >>> 8 on unsigned 32-bit patterns
Shr1(a) == <<a[1] \div 2, (a[2] \div 2) + (a[1] % 2) * 32768>>
Shr8(a) == <<a[1] \div 256, (a[2] \div 256) + (a[1] % 256) * 256>>

(***************************************************************************)
(* checksum.js (part_000)                                                   *)
(***************************************************************************)
\* 0xEDB88320 and 0xFFFFFFFF
CRC_POLY == <<60856, 33568>>
ALL_ONES == <<65535, 65535>>

RECURSIVE crcTableEntry(_, _)
crcTableEntry(crc, j) ==
    IF j = 8 THEN crc
    ELSE crcTableEntry(IF crc[2] % 2 = 1 THEN XorW(CRC_POLY, Shr1(crc))
                                        ELSE Shr1(crc), j + 1)

CRC_TABLE == [i \in 0..255 |-> crcTableEntry(Num(i), 0)]

RECURSIVE crcLoop(_, _, _)
crcLoop(crc, buf, i) ==
    IF i > Len(buf) THEN crc
    ELSE crcLoop(XorW(Shr8(crc), CRC_TABLE[Xor(crc[2] % 256, buf[i]) % 256]),
                 buf, i + 1)

\* (crc ^ 0xFFFFFFFF) >>> 0: an unsigned 32-bit number
crc32(buf) == ToUint32(XorW(crcLoop(ALL_ONES, buf, 1), ALL_ONES))

\* crc32(data) ^ k: the ^ operator of JavaScript returns a signed 32-bit number
getChecksum(buf, kk) == ToInt32(XorW(ToUint32(crc32(buf)), ToUint32(Num(kk))))

(***************************************************************************)
(* luby-transform (part_001): slicing, sampler, encoder                     *)
(***************************************************************************)
\* pako.deflate, an external library: kept abstract as a zlib-like framing
\* (one header byte, the bytes, one check byte).  What the encoder relies on
\* is only that the result is a byte sequence, never empty.
deflate(buf) ==
    LET RECURSIVE sum(_)
        sum(i) == IF i = 0 THEN 1 ELSE (sum(i - 1) + buf[i]) % 256
    IN  <<120>> \o buf \o <<sum(Len(buf))>>

\* new Uint8Array(blockSize) then block.set(data.slice(i, i + blockSize)):
\* i is the 0-based offset of the chunk
sliceBlock(buf, i, blockSize) ==
    [j \in 1..blockSize |-> IF i + j <= Len(buf) THEN buf[i + j] ELSE 0]

RECURSIVE sliceLoop(_, _, _, _)
sliceLoop(buf, blockSize, i, blocks) ==
    IF i < Len(buf)
    THEN sliceLoop(buf, blockSize, i + blockSize,
                   Append(blocks, sliceBlock(buf, i, blockSize)))
    ELSE blocks

RECURSIVE sliceLoopWhole(_, _, _, _)
sliceLoopWhole(buf, blockSize, i, blocks) ==
    IF i + blockSize <= Len(buf)
    THEN sliceLoopWhole(buf, blockSize, i + blockSize,
                        Append(blocks, sliceBlock(buf, i, blockSize)))
    ELSE blocks

\* the mutated sliceData stops before a final partial chunk
sliceDataDropPartial(buf, blockSize) == sliceLoopWhole(buf, blockSize, 0, <<>>)

\* for (let i = 0; i < data.length; i += blockSize)
sliceData(buf, blockSize) == sliceLoop(buf, blockSize, 0, <<>>)

\* The reals of getRandomDegree in fixed point: x is kept as floor(x * SCALE),
\* so that, as with floating point, the cumulative sum may fall short of 1.
\* 1 / 0 is Infinity, above every draw.
Infinity == SCALE + 1

\* Array(k).fill(0), then probabilities[0] = 1 / k (which creates element 0
\* when k = 0) and probabilities[d - 1] = 1 / (d * (d - 1))
probabilities(kk) ==
    [d \in 1..Max2(kk, 1) |->
        IF d = 1 THEN (IF kk = 0 THEN Infinity ELSE SCALE \div kk)
        ELSE SCALE \div (d * (d - 1))]

RECURSIVE prefixSum(_, _)
prefixSum(p, i) == IF i = 0 THEN 0 ELSE prefixSum(p, i - 1) + p[i]

cumulativeProbabilities(kk) ==
    LET p == probabilities(kk)
    IN  [i \in 1..Len(p) |-> prefixSum(p, i)]

\* randomValue is the draw of Math.random() times SCALE; position i of the
\* 1-based sequence is the source's i + 1
getRandomDegree(kk, randomValue) ==
    LET c == cumulativeProbabilities(kk)
        hits == {i \in 1..Len(c) : randomValue < c[i]}
    IN  IF hits # {} THEN Min(hits) ELSE kk

\* Math.floor(Math.random() * k)
randomIndex(kk, randomValue) == (randomValue * kk) \div SCALE

\* the mutated Set keeps duplicates
setAddNoDedupe(set, x) == Append(set, x)

\* Set.prototype.add on a Set kept in insertion order
setAdd(set, x) == IF x \in Range(set) THEN set ELSE Append(set, x)

\* the mutated inner loop ORs the bytes
xorIntoOr(acc, slice) ==
    [i \in 1..Len(acc) |->
        LET x == Xor(acc[i], slice[i])
            RECURSIVE andOf(_, _)
            andOf(a, b) == IF a = 0 \/ b = 0 THEN 0
                           ELSE ((a % 2) * (b % 2)) + 2 * andOf(a \div 2, b \div 2)
        IN  x + andOf(acc[i], slice[i])]

\* for (i < this.sliceSize) data[i] = data[i] ^ indicesIndex[i]
xorInto(acc, slice) == [i \in 1..Len(acc) |-> Xor(acc[i], slice[i])]

RECURSIVE createBlockData(_, _, _, _)
\* the for-of loop of createBlock over indices[n..], from accumulator acc
createBlockData(tbl, indices, n, acc) ==
    IF n > Len(indices) THEN acc
    ELSE createBlockData(tbl, indices, n + 1, xorInto(acc, tbl[indices[n] + 1]))

\* createBlock throws a TypeError when this.indices[index] is undefined and
\* the inner loop reads indicesIndex[0]
createBlockThrows(tbl, size, indices) ==
    size > 0 /\ \E n \in 1..Len(indices) : indices[n] + 1 > Len(tbl)

createBlock(tbl, size, kk, nbytes, sum, indices) ==
    [k |-> kk, bytes |-> nbytes, checksum |-> sum, indices |-> indices,
     data |-> createBlockData(tbl, indices, 1, [i \in 1..size |-> 0])]

NoBlock == [k |-> 0, bytes |-> 0, checksum |-> Num(0), indices |-> <<>>,
            data |-> <<>>]

(***************************************************************************)
(* luby-transform (part_001): the block codec.  The header fields of a      *)
(* block given to the codec are numbers <<hi, lo>>.                         *)
(***************************************************************************)
\* the four bytes of an unsigned 32-bit word, most significant first
bytesBE(w) == <<w[1] \div 256, w[1] % 256, w[2] \div 256, w[2] % 256>>

\* the bytes of one Uint32Array element as new Uint8Array(header.buffer) sees
\* them: the host's byte order
hostBytes(w, le) ==
    LET b == bytesBE(w)
    IN  IF le THEN <<b[4], b[3], b[2], b[1]>> ELSE b

RECURSIVE flatten(_, _, _)
flatten(words, le, i) ==
    IF i > Len(words) THEN <<>>
    ELSE hostBytes(words[i], le) \o flatten(words, le, i + 1)

\* new Uint32Array([indices.length, ...indices, k, bytes, checksum]) converts
\* every element with ToUint32; le is the byte order of the host
blockToBinary(blk, le) ==
    LET header == [i \in 1..(Len(blk.indices) + 4) |->
                     ToUint32(IF i = 1 THEN Num(Len(blk.indices))
                              ELSE IF i <= Len(blk.indices) + 1
                                   THEN blk.indices[i - 1]
                              ELSE IF i = Len(blk.indices) + 2 THEN blk.k
                              ELSE IF i = Len(blk.indices) + 3 THEN blk.bytes
                              ELSE blk.checksum)]
    IN  flatten(header, le, 1) \o blk.data

\* dataView.getUint32(off, false): big-endian, for off + 4 <= byteLength
getUint32(binary, off) ==
    <<binary[off + 1] * 256 + binary[off + 2],
      binary[off + 3] * 256 + binary[off + 4]>>

NoCodecBlock == [k |-> Num(0), bytes |-> Num(0), checksum |-> Num(0),
                 indices |-> <<>>, data |-> <<>>]

NoOutcome == [outcome |-> "none", block |-> NoCodecBlock]

\* getUint32 throws a RangeError when off + 4 exceeds the byte length.  The
\* last read is at (degree + 3) * 4, so every read succeeds iff the buffer
\* has (degree + 4) * 4 bytes; buffers of the model are shorter than 2^18
\* bytes, so a degree of 65536 or more never fits.
binaryToBlock(binary) ==
    IF Len(binary) < 4 THEN [outcome |-> "RangeError", block |-> NoCodecBlock]
    ELSE
      LET deg == getUint32(binary, 0)
          d == deg[2]
      IN  IF deg[1] # 0 \/ (d + 4) * 4 > Len(binary)
          THEN [outcome |-> "RangeError", block |-> NoCodecBlock]
          ELSE [outcome |-> "block",
                block |-> [k |-> getUint32(binary, (d + 1) * 4),
                           bytes |-> getUint32(binary, (d + 2) * 4),
                           checksum |-> getUint32(binary, (d + 3) * 4),
                           indices |-> [i \in 1..d |-> getUint32(binary, i * 4)],
                           data |-> SubSeq(binary, (d + 4) * 4 + 1, Len(binary))]]

(***************************************************************************)
(* file-handler.js: the handlers of setupDropZone                           *)
(***************************************************************************)
\* the mutated onDragLeave does not reset a non-positive counter
onDragLeaveNoReset(counter, cls) ==
    [dragCounter |-> counter - 1,
     dragging |-> IF counter - 1 <= 0 THEN FALSE ELSE cls]

\* dragCounter--; if (dragCounter <= 0) { dragCounter = 0; remove('dragging') }
onDragLeave(counter, cls) ==
    IF counter - 1 <= 0
    THEN [dragCounter |-> 0, dragging |-> FALSE]
    ELSE [dragCounter |-> counter - 1, dragging |-> cls]

(***************************************************************************)
(* Input domains.                                                           *)
(***************************************************************************)
Payloads == SeqsUpTo(PayloadBytes, MaxLen)

\* sequences of pairwise distinct elements of S, of length 1..n
DistinctSeqs(S, n) ==
    {q \in SeqsUpTo(S, n) : Len(q) >= 1 /\ Cardinality(Range(q)) = Len(q)}

\* header field values below and above 2^31, and data bytes
FieldValues == {<<0, 7>>, <<59575, 48706>>}
DataBytes == {0, 255}

\* the well-formed blocks: degree >= 1, indices distinct and in [0, k),
\* unsigned 32-bit fields, data of length sliceSize
WellFormedBlocks ==
    UNION {
      {[k |-> Num(kk), bytes |-> nb, checksum |-> cs,
        indices |-> [i \in 1..Len(q) |-> Num(q[i])], data |-> d] :
         q \in DistinctSeqs(0..(kk - 1), kk), nb \in FieldValues,
         cs \in FieldValues, d \in UNION {[1..n -> DataBytes] : n \in 1..MaxSliceSize}}
      : kk \in 1..MaxK}

\* buffers of unknown origin: big-endian words, optional data, cut short by
\* up to one byte
WireWords == {Num(0), Num(1), Num(2)}
ReceivedBuffers ==
    {LET full == flatten(ws, FALSE, 1) \o d
     IN  SubSeq(full, 1, Len(full) - t) :
        ws \in (SeqsUpTo(WireWords, MaxWords) \ {<<>>}),
        d \in {<<>>, <<255>>}, t \in 0..1}

Files == {"a.txt", "b.png"}

EncoderIdle ==
    /\ pc = "new" /\ data = <<>> /\ sliceSize = 1 /\ compress = FALSE
    /\ compressed = <<>> /\ slices = <<>> /\ k = 0 /\ checksum = Num(0)
    /\ bytes = 0 /\ degree = 0 /\ sel = <<>> /\ block = NoBlock

CodecIdle ==
    /\ cphase = "idle" /\ littleEndian = TRUE /\ cin = NoCodecBlock
    /\ wire = <<>> /\ cout = NoOutcome

DropZoneIdle ==
    /\ dragCounter = 0 /\ dragging = FALSE /\ listening = TRUE
    /\ lastEvent = "none" /\ delivered = <<>>

(***************************************************************************)
(* The encoder: construction and the fountain() generator.                  *)
(***************************************************************************)
Init ==
    /\ pc = "new"
    /\ data \in Payloads
    /\ sliceSize \in 1..MaxSliceSize
    /\ compress \in BOOLEAN
    /\ compressed = <<>> /\ slices = <<>> /\ k = 0 /\ checksum = Num(0)
    /\ bytes = 0 /\ degree = 0 /\ sel = <<>> /\ block = NoBlock
    /\ CodecIdle
    /\ DropZoneIdle

\* new LtEncoder(data, sliceSize, compress)
Construct ==
    /\ pc = "new"
    /\ compressed' = (IF compress THEN deflate(data) ELSE data)
    /\ slices' = sliceData(compressed', sliceSize)
    /\ k' = Len(slices')
    /\ checksum' = getChecksum(data, k')
    /\ bytes' = Len(compressed')
    /\ pc' = "ready"
    /\ UNCHANGED <<data, sliceSize, compress, degree, sel, block>>
    /\ UNCHANGED <<codecVars, dropVars>>

\* a pull on fountain(): const degree = getRandomDegree(this.k), and the
\* empty Set of getRandomIndices; the block of the previous pull is gone
FountainDegree ==
    /\ pc \in {"ready", "yielded"}
    /\ \E r \in 0..(SCALE - 1) : degree' = getRandomDegree(k, r)
    /\ sel' = <<>>
    /\ block' = NoBlock
    /\ pc' = "sampling"
    /\ UNCHANGED <<data, sliceSize, compress, compressed, slices, k, checksum, bytes>>
    /\ UNCHANGED <<codecVars, dropVars>>

\* one turn of the while loop of getRandomIndices
GetRandomIndicesStep ==
    /\ pc = "sampling"
    /\ Len(sel) < degree
    /\ \E r \in 0..(SCALE - 1) : sel' = setAdd(sel, randomIndex(k, r))
    /\ UNCHANGED <<pc, data, sliceSize, compress, compressed, slices, k,
                   checksum, bytes, degree, block>>
    /\ UNCHANGED <<codecVars, dropVars>>

\* the loop of getRandomIndices has ended: yield this.createBlock(indices)
FountainYield ==
    /\ pc = "sampling"
    /\ Len(sel) >= degree
    /\ IF createBlockThrows(slices, sliceSize, sel)
       THEN pc' = "thrown" /\ UNCHANGED block
       ELSE /\ pc' = "yielded"
            /\ block' = createBlock(slices, sliceSize, k, bytes, checksum, sel)
    /\ UNCHANGED <<data, sliceSize, compress, compressed, slices, k, checksum,
                   bytes, degree, sel>>
    /\ UNCHANGED <<codecVars, dropVars>>

Next == Construct \/ FountainDegree \/ GetRandomIndicesStep \/ FountainYield

Spec == Init /\ [][Next]_vars

(***************************************************************************)
(* The codec: blocks encoded and decoded, buffers received and decoded.     *)
(***************************************************************************)
InitCodec ==
    /\ cphase = "idle"
    /\ littleEndian \in BOOLEAN
    /\ cin = NoCodecBlock /\ wire = <<>> /\ cout = NoOutcome
    /\ EncoderIdle
    /\ DropZoneIdle

\* blockToBinary(block) on a well-formed block
EncodeBlock ==
    /\ cphase = "idle"
    /\ \E b \in WellFormedBlocks :
         /\ cin' = b
         /\ wire' = blockToBinary(b, littleEndian)
    /\ cphase' = "encoded"
    /\ cout' = NoOutcome
    /\ UNCHANGED <<littleEndian, encVars, dropVars>>

\* a scanned buffer arrives
ReceiveBuffer ==
    /\ cphase = "idle"
    /\ \E buf \in ReceivedBuffers : wire' = buf
    /\ cin' = NoCodecBlock
    /\ cphase' = "received"
    /\ cout' = NoOutcome
    /\ UNCHANGED <<littleEndian, encVars, dropVars>>

\* binaryToBlock(wire)
DecodeWire ==
    /\ cphase \in {"encoded", "received"}
    /\ cout' = binaryToBlock(wire)
    /\ cphase' = (IF cphase = "encoded" THEN "roundtrip" ELSE "decoded")
    /\ UNCHANGED <<littleEndian, cin, wire, encVars, dropVars>>

NextCodec == EncodeBlock \/ ReceiveBuffer \/ DecodeWire

SpecCodec == InitCodec /\ [][NextCodec]_vars

(***************************************************************************)
(* The drop zone.                                                           *)
(***************************************************************************)
InitDropZone == DropZoneIdle /\ EncoderIdle /\ CodecIdle

DragEnter ==
    /\ listening
    /\ dragCounter < MaxDrag
    /\ dragCounter' = dragCounter + 1
    /\ dragging' = TRUE
    /\ lastEvent' = "dragenter"
    /\ UNCHANGED <<listening, delivered, encVars, codecVars>>

DragLeave ==
    /\ listening
    /\ dragCounter' = onDragLeave(dragCounter, dragging).dragCounter
    /\ dragging' = onDragLeave(dragCounter, dragging).dragging
    /\ lastEvent' = "dragleave"
    /\ UNCHANGED <<listening, delivered, encVars, codecVars>>

DragOver ==
    /\ listening
    /\ lastEvent' = "dragover"
    /\ UNCHANGED <<dragCounter, dragging, listening, delivered, encVars, codecVars>>

\* hasTransfer: event.dataTransfer and its files are present
Drop ==
    /\ listening
    /\ \E hasTransfer \in BOOLEAN, files \in SeqsUpTo(Files, 2) :
         /\ dragging' = FALSE
         /\ dragCounter' = 0
         /\ IF hasTransfer /\ Len(files) > 0
            THEN /\ Len(delivered) < MaxFiles
                 /\ delivered' = Append(delivered, files[1])
            ELSE UNCHANGED delivered
    /\ lastEvent' = "drop"
    /\ UNCHANGED <<listening, encVars, codecVars>>

\* the cleanup function returned by setupDropZone
Cleanup ==
    /\ listening
    /\ listening' = FALSE
    /\ UNCHANGED <<dragCounter, dragging, lastEvent, delivered, encVars, codecVars>>

NextDropZone == DragEnter \/ DragLeave \/ DragOver \/ Drop \/ Cleanup

SpecDropZone == InitDropZone /\ [][NextDropZone]_vars

(***************************************************************************)
(* Properties.                                                              *)
(***************************************************************************)
Bit(n, b) == (n \div (2 ^ b)) % 2

Ceil(a, b) == (a + b - 1) \div b

IsAscending(q) == \A i, j \in 1..Len(q) : i < j => q[i] < q[j]

\* the elements of a set of integers as an ascending sequence
RECURSIVE Ascending(_)
Ascending(S) ==
    IF S = {} THEN <<>> ELSE <<Min(S)>> \o Ascending(S \ {Min(S)})

\* C1: decoding the encoding of a well-formed block returns a block with the
\* same k, bytes, checksum, indices (in order) and data.
C1_RoundTrip ==
    cphase = "roundtrip" => cout.outcome = "block" /\ cout.block = cin

\* the header of a buffer is structurally inconsistent: too short for the
\* degree of its first word, degree 0, a duplicate index or an index >= k
WireDegree == getUint32(wire, 0)
WireTooShort ==
    Len(wire) < 4 \/ WireDegree[1] # 0 \/ Len(wire) < (WireDegree[2] + 4) * 4
WireIndex(i) == getUint32(wire, i * 4)
WireK == getUint32(wire, (WireDegree[2] + 1) * 4)
WireInconsistent ==
    \/ WireTooShort
    \/ WireDegree[2] = 0
    \/ \E i, j \in 1..WireDegree[2] : i < j /\ WireIndex(i) = WireIndex(j)
    \/ \E i \in 1..WireDegree[2] :
          \/ WireIndex(i)[1] > WireK[1]
          \/ WireIndex(i)[1] = WireK[1] /\ WireIndex(i)[2] >= WireK[2]

\* C2: binaryToBlock never returns a block for a structurally inconsistent
\* buffer.
C2_RejectsMalformed ==
    (cphase = "decoded" /\ WireInconsistent) => cout.outcome # "block"

\* C3: no encoder with k = 0 is ever constructed: construction on an empty
\* (compressed) payload fails.
C3_NoEmptyEncoder == pc # "new" => k >= 1

\* C4: once an encoder is constructed, no pull on fountain() throws.
C4_GenerationInfallible == pc # "thrown"

\* C5: for a non-empty compressed payload c and slice size s, k = ceil(len(c)/s),
\* every slice has s bytes, slice j is c[j*s .. (j+1)*s) followed by zeros,
\* and bytes = len(c).
C5_Slicing ==
    (pc # "new" /\ Len(compressed) >= 1) =>
        /\ k = Ceil(Len(compressed), sliceSize)
        /\ Len(slices) = k
        /\ bytes = Len(compressed)
        /\ \A j \in 1..Len(slices) :
              /\ Len(slices[j]) = sliceSize
              /\ \A i \in 1..sliceSize :
                    slices[j][i] =
                        (IF (j - 1) * sliceSize + i <= Len(compressed)
                         THEN compressed[(j - 1) * sliceSize + i] ELSE 0)

\* a last slice that is zero-padded, after at least one full slice
C5_Witness ==
    /\ pc = "ready" /\ k >= 2
    /\ Len(compressed) % sliceSize # 0
    /\ slices[k][sliceSize] = 0

\* C6: the data of a yielded block has sliceSize bytes and is the byte-wise XOR
\* of exactly the slices its indices name (every bit is the parity of that bit
\* over the named slices), whatever the order of the indices; a block of one
\* index carries that slice.
C6_XorFold ==
    pc = "yielded" =>
        /\ Len(block.data) = sliceSize
        /\ \A i \in 1..sliceSize, b \in 0..7 :
              Bit(block.data[i], b) =
                  Cardinality({j \in Range(block.indices) :
                                  Bit(slices[j + 1][i], b) = 1}) % 2
        /\ block.data = createBlock(slices, sliceSize, k, bytes, checksum,
                                    Ascending(Range(block.indices))).data
        /\ Len(block.indices) = 1 => block.data = slices[block.indices[1] + 1]

\* a block of three slices, drawn out of order, with a non-zero byte
C6_Witness ==
    /\ pc = "yielded"
    /\ Len(block.indices) >= 3
    /\ ~IsAscending(block.indices)
    /\ \E i \in 1..sliceSize : block.data[i] # 0

\* C7: for k >= 1 the degree is in [1, k] (1 when k = 1), the sampled indices
\* are pairwise distinct and in [0, k), and a yielded block has exactly degree
\* of them (all of 0..k-1 when degree = k).
C7_WellFormedIndices ==
    k >= 1 =>
        /\ pc \in {"sampling", "yielded"} =>
              /\ degree \in 1..k
              /\ k = 1 => degree = 1
        /\ pc = "sampling" =>
              /\ Len(sel) <= degree
              /\ Cardinality(Range(sel)) = Len(sel)
              /\ Range(sel) \subseteq 0..(k - 1)
        /\ pc = "yielded" =>
              /\ Len(block.indices) = degree
              /\ Cardinality(Range(block.indices)) = degree
              /\ Range(block.indices) \subseteq 0..(k - 1)
              /\ degree = k => Range(block.indices) = 0..(k - 1)
        /\ pc # "thrown"

\* a block of the boundary degree k, for k >= 3
C7_Witness ==
    pc = "yielded" /\ k >= 3 /\ degree = k /\ Len(block.indices) = k

\* C8: the checksum of the encoder and of every block is the unsigned 32-bit
\* value CRC32(payload) XOR k.
C8_ChecksumUnsigned ==
    pc # "new" =>
        /\ checksum[1] >= 0
        /\ checksum = XorW(crc32(data), Num(k))
        /\ pc = "yielded" => block.checksum = checksum

\* C9: the indices of every yielded block are in strictly ascending order.
C9_AscendingIndices == pc = "yielded" => IsAscending(block.indices)

\* C10: dragCounter is never negative, the drop zone carries 'dragging' exactly
\* when dragCounter > 0, and after a drop the counter is 0 and the class absent.
C10_DragState ==
    /\ dragCounter >= 0
    /\ dragging <=> dragCounter > 0
    /\ lastEvent = "drop" => dragCounter = 0 /\ ~dragging

\* a dragleave that leaves one drag in progress, after a file was dropped
C10_Witness ==
    /\ lastEvent = "dragleave"
    /\ dragCounter > 0 /\ dragging
    /\ Len(delivered) > 0

====
